---- MODULE Spec2Model ----
(***************************************************************************)
(* OAuth2 credential lifecycle of homebridge-smartthings:                  *)
(*   SmartThingsAuth        src/src/auth/auth.ts                           *)
(*   TokenManager (polling) src/unnamed/part_000                           *)
(*   TokenManager (one-shot timer) src/src/auth/tokenManager.ts            *)
(*                                                                         *)
(* Time is counted in seconds since the start of the run; the source's     *)
(* millisecond quantities are divided by 1000 (30 days in milliseconds     *)
(* does not fit TLC's 32-bit integers), so `expires_in * 1000` ms is       *)
(* `expires_in` here.                                                      *)
(*                                                                         *)
(* A JavaScript object is a function from its keys to their values, an     *)
(* absent key is a key outside DOMAIN; `null` objects are the empty        *)
(* function.  Node runs every synchronous stretch of code atomically, so   *)
(* an action is one stretch between two awaits of a network call.          *)
(***************************************************************************)
EXTENDS Integers, Sequences, FiniteSets, TLC

\* ------------------------------------------------------------ constants
REFRESH_BEFORE_EXPIRY == 5 * 60
REFRESH_CHECK_INTERVAL == 60
REFRESH_TOKEN_LIFETIME == 30 * 24 * 60 * 60

\* ------------------------------------------------------------ bounds
\* clock steps taken, nonces drawn, requests awaiting the token endpoint
\* (refresh_token and authorization_code grants together)
MaxAdvance == 2
MaxNonce == 2
MaxInFlight == 2

\* ------------------------------------------------------------ values
Null == "null"
Absent == "undefined"
NoRecord == << >>
NoTimer == << >>

\* crypto.randomBytes(32).toString('hex'): the k-th value drawn; 256 random
\* bits never repeat, so every draw is a value not seen before.
NonceNames == <<"N1", "N2", "N3", "N4", "N5", "N6">>

Variants == {"poll", "oneshot"}
\* who calls refreshTokens(): checkAndRefreshTokens from loadTokens (the
\* startup check) or from a tick of the monitor, initialize(), or the
\* one-shot timer callback
Callers == {"load", "check", "init", "timer"}

\* the access-token lifetime the token endpoint grants, in seconds
EXPIRES_IN == 6 * 60

\* an expiry timestamp a response may carry of its own
STALE_EXPIRY == 9999

\* Bodies the token endpoint may answer with: the three documented fields,
\* or a body that omits refresh_token and expires_in and carries expiry
\* timestamps of its own.
Responses ==
    {[access_token |-> "AT1", refresh_token |-> "RT1", expires_in |-> EXPIRES_IN],
     [access_token |-> "AT2", expires_at |-> STALE_EXPIRY,
      refresh_token_expires_at |-> STALE_EXPIRY]}

\* Token files a previous run may have left behind: written by updateTokens
\* at instant t0 <= 0 from a full response (the access token expires at 60,
\* or the refresh token at 360).
PriorUpdateInstants == {60 - EXPIRES_IN, 360 - REFRESH_TOKEN_LIFETIME}
PriorFiles ==
    {[access_token |-> "AT0", refresh_token |-> "RT0", expires_in |-> EXPIRES_IN,
      expires_at |-> t0 + EXPIRES_IN,
      refresh_token_expires_at |-> t0 + REFRESH_TOKEN_LIFETIME] :
        t0 \in PriorUpdateInstants}

VARIABLES
    variant,            \* which TokenManager the build contains
    phase,              \* "new" before new SmartThingsAuth(...), "up" after
    now,                \* Date.now()
    advances,           \* number of clock steps taken (bounded)
    state,              \* SmartThingsAuth.state, the pending nonce
    issued,             \* number of nonces drawn so far
    tokenData,          \* TokenManager.tokenData
    file,               \* contents of smartthings_tokens.json (NoRecord: no file)
    refreshTimer,       \* due instant of the armed timer, NoTimer if none
    inflight,           \* refreshTokens() calls awaiting the token endpoint, per caller
    exchanging,         \* handleOAuthCallback calls awaiting exchangeCodeForTokens
    used,               \* a callback has passed validation since the last nonce was drawn
    lastOp              \* the operation that ran last and what it did

vars == <<variant, phase, now, advances, state, issued, tokenData, file,
          refreshTimer, inflight, exchanging, used, lastOp>>

\* label of a step: the operation, what it did, and where an error it
\* raised ended up
Op(op, did, err) == [op |-> op, did |-> did, err |-> err]

\* ------------------------------------------------------------ TokenManager
Has(obj, k) == k \in DOMAIN obj

\* { ...a, ...b }
Spread(a, b) ==
    [k \in (DOMAIN a) \cup (DOMAIN b) |-> IF k \in DOMAIN b THEN b[k] ELSE a[k]]

\* The methods below read this.tokenData; td is its value at the call.
GetAccessToken(td) ==
    IF td # NoRecord /\ Has(td, "access_token") THEN td.access_token ELSE Null

GetRefreshToken(td) ==
    IF td # NoRecord /\ Has(td, "refresh_token") THEN td.refresh_token ELSE Null

\* variant of ValidityBuffer: the predicates subtract twice the buffer the
\* periodic check uses
ValidityBufferDoubled ==
    IF variant = "poll" THEN 2 * REFRESH_BEFORE_EXPIRY ELSE 0

\* the buffer the variant subtracts in its validity predicates
ValidityBuffer == IF variant = "poll" THEN REFRESH_BEFORE_EXPIRY ELSE 0

\* variant of IsTokenValid: the comparison admits the expiry instant itself
IsTokenValidInclusive(td) ==
    IF td = NoRecord THEN FALSE
    ELSE now <= td.expires_at - ValidityBuffer

IsTokenValid(td) ==
    IF td = NoRecord THEN FALSE
    ELSE now < td.expires_at - ValidityBuffer

IsRefreshTokenValid(td) ==
    IF td = NoRecord THEN FALSE
    ELSE now < td.refresh_token_expires_at - ValidityBuffer

\* variant of CheckDecision: the access-token test comes first
CheckDecisionAccessFirst(td) ==
    IF td = NoRecord THEN "none"
    ELSE IF td.expires_at - now <= REFRESH_BEFORE_EXPIRY
         THEN "refresh"
    ELSE IF td.refresh_token_expires_at - now <= REFRESH_BEFORE_EXPIRY
         THEN "auth"
    ELSE "none"

\* what checkAndRefreshTokens decides to do
CheckDecision(td) ==
    IF td = NoRecord THEN "none"
    ELSE IF td.refresh_token_expires_at - now <= REFRESH_BEFORE_EXPIRY
         THEN "auth"
    ELSE IF td.expires_at - now <= REFRESH_BEFORE_EXPIRY
         THEN "refresh"
    ELSE "none"

ExpiresInOrZero(t) == IF Has(t, "expires_in") THEN t.expires_in ELSE 0

\* variant of NewTokenData: the spreads in the other order, the old record
\* overriding the response
NewTokenDataOldWins(t) ==
    Spread(Spread(t, tokenData),
           [expires_at |-> now + ExpiresInOrZero(t),
            refresh_token_expires_at |-> now + REFRESH_TOKEN_LIFETIME])

\* the record updateTokens builds from token response t
NewTokenData(t) ==
    Spread(Spread(tokenData, t),
           [expires_at |-> now + ExpiresInOrZero(t),
            refresh_token_expires_at |-> now + REFRESH_TOKEN_LIFETIME])

Max(a, b) == IF a >= b THEN a ELSE b

\* Date.now() at the start of the run, in seconds since the epoch: instant x
\* of the model is the JavaScript timestamp (RUN_START + x) * 1000, so a
\* timestamp is falsy (0) only for x = -RUN_START
RUN_START == 1700000000

\* the timer scheduleTokenRefresh leaves armed for record td (one-shot variant)
ScheduleTokenRefresh(td) ==
    IF td = NoRecord \/ td.expires_at = -RUN_START THEN NoTimer
    ELSE <<now + Max((td.expires_at - now) - REFRESH_BEFORE_EXPIRY, 0)>>

\* TokenData fields of type number; every other field is a string
NumberKeys == {"expires_in", "expires_at", "refresh_token_expires_at"}

\* JSON.stringify(obj, null, 2): the text holds one member per own property,
\* a string as a quoted literal and a finite number as a number literal (an
\* integer below 2^53 is written exactly)
JsonStringify(obj) ==
    [k \in DOMAIN obj |->
        IF k \in NumberKeys THEN <<"number", obj[k]>> ELSE <<"string", obj[k]>>]

\* JSON.parse(text): one property per member, with the literal's value
JsonParse(text) == [k \in DOMAIN text |-> text[k][2]]

\* variant of SaveTokens: a serializer that writes the credential fields
\* only and leaves expires_in out
SaveTokensWithoutExpiresIn(td) ==
    JsonStringify([k \in (DOMAIN td) \ {"expires_in"} |-> td[k]])

\* the text saveTokens writes for record td
SaveTokens(td) == JsonStringify(td)
\* the record loadTokens reads from file text f
ParseTokens(f) == JsonParse(f)

\* variant of UpdateTokens: expiry fields carried by the response are kept
UpdateTokensResponseExpiry(t) ==
    /\ tokenData' = Spread(NewTokenData(t), t)
    /\ file' = SaveTokens(Spread(NewTokenData(t), t))
    /\ refreshTimer' =
          IF variant = "oneshot"
          THEN ScheduleTokenRefresh(Spread(NewTokenData(t), t))
          ELSE refreshTimer

UpdateTokens(t) ==
    /\ tokenData' = NewTokenData(t)
    /\ file' = SaveTokens(NewTokenData(t))
    /\ refreshTimer' =
          IF variant = "oneshot" THEN ScheduleTokenRefresh(NewTokenData(t))
          ELSE refreshTimer

\* ------------------------------------------------------------ SmartThingsAuth
InFlightCount ==
    inflight["load"] + inflight["check"] + inflight["init"] + inflight["timer"]

StartAuthFlow ==
    /\ issued < MaxNonce
    /\ issued' = issued + 1
    /\ state' = NonceNames[issued + 1]
    /\ used' = FALSE

\* variant of RefreshCatch: the catch block only logs and rethrows
RefreshCatchLogOnly(td) == UNCHANGED <<state, issued, used>>

\* the catch block of refreshTokens
RefreshCatch(td) ==
    IF IsRefreshTokenValid(td) THEN UNCHANGED <<state, issued, used>> ELSE StartAuthFlow

\* refreshTokens() reaches its axios.post (TRUE) or throws before it (FALSE)
RefreshPosts(td) == GetRefreshToken(td) # Null

\* refreshTokens() up to its await
RefreshTokens(caller, td) ==
    IF RefreshPosts(td)
    THEN /\ InFlightCount + exchanging < MaxInFlight
         /\ inflight' = [inflight EXCEPT ![caller] = @ + 1]
         /\ UNCHANGED <<state, issued, used>>
    ELSE /\ RefreshCatch(td)
         /\ UNCHANGED inflight

\* variant of ErrorFate: checkAndRefreshTokens without its try/catch
ErrorFateUncaught(caller) == "escaped"

\* where an error thrown by refreshTokens() ends up: checkAndRefreshTokens
\* catches it, initialize() and the one-shot timer callback do not
ErrorFate(caller) ==
    IF caller \in {"load", "check"} THEN "caught" ELSE "escaped"

\* checkAndRefreshTokens() up to its await
CheckAndRefreshTokens(caller, td) ==
    CASE CheckDecision(td) = "auth" -> StartAuthFlow /\ UNCHANGED inflight
      [] CheckDecision(td) = "refresh" -> RefreshTokens(caller, td)
      [] OTHER -> UNCHANGED <<state, issued, used, inflight>>

CheckErr(caller, td) ==
    IF CheckDecision(td) = "refresh" /\ ~RefreshPosts(td)
    THEN ErrorFate(caller) ELSE "none"

\* ------------------------------------------------------------ actions
\* before the plugin is constructed: no objects yet, the token file as a
\* previous run left it
InitCommon ==
    /\ phase = "new"
    /\ now = 0
    /\ advances = 0
    /\ state = Null
    /\ issued = 0
    /\ tokenData = NoRecord
    /\ file \in {NoRecord} \cup {SaveTokens(f) : f \in PriorFiles}
    /\ refreshTimer = NoTimer
    /\ inflight = [c \in Callers |-> 0]
    /\ exchanging = 0
    /\ used = FALSE
    /\ lastOp = Op("none", "none", "none")

\* the build whose TokenManager polls (auth.ts with part_000)
Init == variant = "poll" /\ InitCommon

\* the build whose TokenManager arms a one-shot timer (auth.ts with tokenManager.ts)
InitOneShot == variant = "oneshot" /\ InitCommon

InitAll == variant \in Variants /\ InitCommon

\* new SmartThingsAuth(...): new TokenManager(...) runs loadTokens() and, in
\* the polling variant, loadTokens' startup check and startRefreshMonitor().
\* The startup check runs inside the constructor; bound says whether
\* platform.auth already refers to the SmartThingsAuth at that point (the
\* platform is outside these sources).  If it does not, the call on it
\* throws inside checkAndRefreshTokens and nothing else happens.
Construct ==
    /\ phase = "new"
    /\ phase' = "up"
    /\ LET td == IF file # NoRecord THEN ParseTokens(file) ELSE NoRecord IN
       /\ tokenData' = td
       /\ IF variant = "poll"
          THEN /\ refreshTimer' = <<now + REFRESH_CHECK_INTERVAL>>
               /\ \E bound \in BOOLEAN :
                    IF bound
                    THEN /\ CheckAndRefreshTokens("load", td)
                         /\ lastOp' = Op("construct", CheckDecision(td), CheckErr("load", td))
                    ELSE /\ UNCHANGED <<state, issued, used, inflight>>
                         /\ lastOp' = Op("construct", "none",
                                 IF CheckDecision(td) = "auth" THEN "escaped"
                                 ELSE IF CheckDecision(td) = "refresh" THEN "caught"
                                 ELSE "none")
          ELSE /\ UNCHANGED <<refreshTimer, state, issued, used, inflight>>
               /\ lastOp' = Op("construct", "none", "none")
    /\ UNCHANGED <<variant, now, advances, file, exchanging>>

\* SmartThingsAuth.initialize(), whenever the platform calls it
Initialize ==
    /\ phase = "up"
    /\ IF GetAccessToken(tokenData) = Null \/ ~IsTokenValid(tokenData)
       THEN IF IsRefreshTokenValid(tokenData)
            THEN /\ RefreshTokens("init", tokenData)
                 /\ lastOp' = Op("init", "refresh",
                        IF RefreshPosts(tokenData) THEN "none" ELSE ErrorFate("init"))
            ELSE /\ StartAuthFlow
                 /\ UNCHANGED inflight
                 /\ lastOp' = Op("init", "auth", "none")
       ELSE /\ UNCHANGED <<state, issued, used, inflight>>
            /\ lastOp' = Op("init", "none", "none")
    /\ UNCHANGED <<variant, phase, now, advances, tokenData, file,
                   refreshTimer, exchanging>>

\* SmartThingsAuth.startAuthFlow() called by the platform
StartAuthFlowCall ==
    /\ phase # "new"
    /\ StartAuthFlow
    /\ lastOp' = Op("startAuthFlow", "auth", "none")
    /\ UNCHANGED <<variant, phase, now, advances, tokenData, file,
                   refreshTimer, inflight, exchanging>>

\* the setInterval callback of startRefreshMonitor (polling variant)
Tick ==
    /\ phase # "new"
    /\ variant = "poll"
    /\ refreshTimer # NoTimer
    /\ now >= refreshTimer[1]
    /\ refreshTimer' = <<now + REFRESH_CHECK_INTERVAL>>
    /\ CheckAndRefreshTokens("check", tokenData)
    /\ lastOp' = [op |-> "tick", did |-> CheckDecision(tokenData),
                   err |-> CheckErr("check", tokenData),
                   retry |-> (lastOp.op = "refreshFail" /\ lastOp.did = "check")]
    /\ UNCHANGED <<variant, phase, now, advances, tokenData, file, exchanging>>

\* the setTimeout callback of scheduleTokenRefresh (one-shot variant)
TimerFire ==
    /\ phase # "new"
    /\ variant = "oneshot"
    /\ refreshTimer # NoTimer
    /\ now >= refreshTimer[1]
    /\ refreshTimer' = NoTimer
    /\ RefreshTokens("timer", tokenData)
    /\ lastOp' = Op("timer", "refresh",
           IF RefreshPosts(tokenData) THEN "none" ELSE ErrorFate("timer"))
    /\ UNCHANGED <<variant, phase, now, advances, tokenData, file, exchanging>>

\* the token endpoint answers a refresh_token grant with body t:
\* refreshTokens() resumes after its await and calls updateTokens
RefreshOk(caller, t) ==
    /\ inflight[caller] > 0
    /\ inflight' = [inflight EXCEPT ![caller] = @ - 1]
    /\ UpdateTokens(t)
    /\ lastOp' = [op |-> "refreshOk", did |-> caller, err |-> "none", tokens |-> t]
    /\ UNCHANGED <<variant, phase, now, advances, state, issued, used, exchanging>>

\* the refresh_token grant fails (network or provider error): the catch block
\* of refreshTokens runs and rethrows to the caller
RefreshFail(caller) ==
    /\ inflight[caller] > 0
    /\ inflight' = [inflight EXCEPT ![caller] = @ - 1]
    /\ RefreshCatch(tokenData)
    /\ lastOp' = [op |-> "refreshFail", did |-> caller, err |-> ErrorFate(caller),
                   auth |-> ~IsRefreshTokenValid(tokenData)]
    /\ UNCHANGED <<variant, phase, now, advances, tokenData, file,
                   refreshTimer, exchanging>>

\* TokenManager.clearTokens()
ClearTokens ==
    /\ phase # "new"
    /\ tokenData' = NoRecord
    /\ file' = NoRecord
    /\ refreshTimer' = NoTimer
    /\ lastOp' = Op("clearTokens", "none", "none")
    /\ UNCHANGED <<variant, phase, now, advances, state, issued, used,
                   inflight, exchanging>>

\* ------------------------------------------------------------ callbacks
\* variant of CallbackInvalid: the state is not compared with this.state
CallbackInvalidNoStateCheck(q) ==
    \/ q.code = Absent
    \/ q.state = Absent

\* variant of CallbackInvalid: a missing code is not noticed
CallbackInvalidNoCodeCheck(q) ==
    \/ q.state = Absent
    \/ q.state # state

\* the throw conditions of handleOAuthCallback for query q
CallbackInvalid(q) ==
    \/ q.code = Absent
    \/ q.state = Absent
    \/ q.state # state

\* queries the webhook server may forward: with a code, the state missing, a
\* value never issued, the nonce drawn last or the one drawn before it;
\* without a code, the state most likely to pass
Queries ==
    [code : {"abc"},
     state : {Absent, "wrong"}
             \cup {NonceNames[k] : k \in {issued - 1, issued} \cap (1..issued)}]
    \cup {[code |-> Absent, state |-> IF state = Null THEN "wrong" ELSE state]}

\* handleOAuthCallback(q, res) up to the await of exchangeCodeForTokens, or
\* to its end (the catch block answers 500) when validation throws
HandleOAuthCallback(q) ==
    /\ phase # "new"
    /\ IF CallbackInvalid(q)
       THEN /\ lastOp' = [op |-> "callback", query |-> q, posted |-> FALSE,
                          status |-> 500]
            /\ UNCHANGED <<exchanging, used>>
       ELSE /\ InFlightCount + exchanging < MaxInFlight
            /\ exchanging' = exchanging + 1
            /\ used' = TRUE
            /\ lastOp' = [op |-> "callback", query |-> q, posted |-> TRUE,
                          status |-> 0]
    /\ UNCHANGED <<variant, phase, now, advances, state, issued, tokenData,
                   file, refreshTimer, inflight>>

\* the token endpoint answers the authorization_code grant with body t:
\* updateTokens(t), then the 200 page
ExchangeOk(t) ==
    /\ exchanging > 0
    /\ exchanging' = exchanging - 1
    /\ UpdateTokens(t)
    /\ lastOp' = [op |-> "exchangeOk", tokens |-> t, status |-> 200]
    /\ UNCHANGED <<variant, phase, now, advances, state, issued, used, inflight>>

\* variant of ExchangeFail: the catch block also drops the credentials
ExchangeFailClearing ==
    /\ exchanging > 0
    /\ exchanging' = exchanging - 1
    /\ tokenData' = NoRecord
    /\ file' = NoRecord
    /\ lastOp' = [op |-> "exchangeFail", status |-> 500]
    /\ UNCHANGED <<variant, phase, now, advances, state, issued, used,
                   refreshTimer, inflight>>

\* the authorization_code grant fails: the catch block answers 500
ExchangeFail ==
    /\ exchanging > 0
    /\ exchanging' = exchanging - 1
    /\ lastOp' = [op |-> "exchangeFail", status |-> 500]
    /\ UNCHANGED <<variant, phase, now, advances, state, issued, used, tokenData,
                   file, refreshTimer, inflight>>

\* ------------------------------------------------------------ the clock
\* instants Date.now() may show next: the clock is sampled once per check
\* interval
NextInstants ==
    {now + REFRESH_CHECK_INTERVAL}

\* the clock is seen to move on only when no timer callback is due: the
\* event loop runs a due callback before any later instant is observed
Advance(t) ==
    /\ phase # "new"
    /\ advances < MaxAdvance
    /\ IF refreshTimer = NoTimer THEN TRUE ELSE now < refreshTimer[1]
    /\ advances' = advances + 1
    /\ now' = t
    /\ lastOp' = [op |-> "advance", did |-> "none", err |-> "none",
                   afterTickAuth |-> (lastOp.op = "tick" /\ lastOp.did = "auth")]
    /\ UNCHANGED <<variant, phase, state, issued, used, tokenData, file,
                   refreshTimer, inflight, exchanging>>

\* the steps both builds take
Common ==
    \/ Construct
    \/ Initialize
    \/ StartAuthFlowCall
    \/ \E c \in Callers, t \in Responses : RefreshOk(c, t)
    \/ \E c \in Callers : RefreshFail(c)
    \/ ClearTokens
    \/ \E q \in Queries : HandleOAuthCallback(q)
    \/ \E t \in Responses : ExchangeOk(t)
    \/ ExchangeFail
    \/ \E t \in NextInstants : Advance(t)

Next == Common \/ Tick
NextOneShot == Common \/ TimerFire
NextAll == Common \/ Tick \/ TimerFire

Spec == Init /\ [][Next]_vars

\* the polling build while the process runs: the clock advances and a due
\* setInterval callback is eventually run
FairSpec ==
    /\ Spec
    /\ WF_vars(Tick)
    /\ WF_vars(\E t \in NextInstants : Advance(t))
SpecOneShot == InitOneShot /\ [][NextOneShot]_vars

\* the one-shot build while the process runs: the clock advances and a due
\* setTimeout callback is eventually run
FairSpecOneShot ==
    /\ SpecOneShot
    /\ WF_vars(TimerFire)
    /\ WF_vars(\E t \in NextInstants : Advance(t))
SpecAll == InitAll /\ [][NextAll]_vars

TypeOK ==
    /\ variant \in Variants
    /\ phase \in {"new", "up"}
    /\ issued \in 0..MaxNonce
    /\ InFlightCount + exchanging <= MaxInFlight
    /\ tokenData # NoRecord => ParseTokens(file) = tokenData

\* ------------------------------------------------------------ properties
\* the nonce drawn last, Null before the first draw
LatestNonce == IF issued = 0 THEN Null ELSE NonceNames[issued]

RefreshInBuffer(td) ==
    td # NoRecord /\ td.refresh_token_expires_at - now <= REFRESH_BEFORE_EXPIRY

AccessInBuffer(td) ==
    td # NoRecord /\ td.expires_at - now <= REFRESH_BEFORE_EXPIRY

FullResponse(t) ==
    Has(t, "access_token") /\ Has(t, "refresh_token") /\ Has(t, "expires_in")

\* C1: once a callback has passed validation with the pending nonce, a later
\* callback carrying the same state value, no startAuthFlow in between, is
\* answered 500 and posts nothing to the token endpoint.
C1_NonceAcceptedAtMostOnce ==
    [][(/\ lastOp'.op = "callback"
        /\ used
        /\ state # Null
        /\ lastOp'.query.state = state)
       => (lastOp'.status = 500 /\ ~lastOp'.posted /\ exchanging' = exchanging)]_vars

\* C2: a callback with code and state present whose state differs from the
\* pending nonce leaves no nonce pending.
C2_FailedValidationConsumesNonce ==
    [][(/\ lastOp'.op = "callback"
        /\ lastOp'.query.code # Absent
        /\ lastOp'.query.state # Absent
        /\ lastOp'.query.state # state)
       => state' = Null]_vars

\* C3: a callback arriving while no nonce is pending, or carrying a state
\* other than the nonce drawn last (a superseded nonce included), or lacking
\* code or state, is answered 500 and posts nothing to the token endpoint.
C3_NoExchangeWithoutPendingNonce ==
    [][(/\ lastOp'.op = "callback"
        /\ \/ state = Null
           \/ lastOp'.query.state # LatestNonce
           \/ lastOp'.query.code = Absent
           \/ lastOp'.query.state = Absent)
       => (/\ lastOp'.status = 500
           /\ ~lastOp'.posted
           /\ exchanging' = exchanging)]_vars

\* C3 witness: a callback carrying a superseded nonce was answered 500
C3_Witness ==
    /\ lastOp.op = "callback"
    /\ lastOp.query.code = "abc"
    /\ issued >= 2
    /\ lastOp.query.state = NonceNames[issued - 1]
    /\ lastOp.status = 500
    /\ ~lastOp.posted

\* C4: at most one refreshTokens() call awaits the token endpoint at any time.
C4_AtMostOneRefreshInFlight == InFlightCount <= 1

\* C5: a tick of the polling monitor that finds the refresh token within 5
\* minutes of its expiry calls startAuthFlow() and never refreshTokens(),
\* whatever the access token's expiry.
C5_TickInRefreshBufferStartsAuthFlow ==
    [][(lastOp'.op = "tick" /\ RefreshInBuffer(tokenData))
       => (/\ lastOp'.did = "auth"
           /\ inflight' = inflight
           /\ issued' = issued + 1
           /\ state' = NonceNames[issued + 1])]_vars

\* C5 witness: such a tick ran on a record whose access token was in the
\* buffer as well
C5_Witness ==
    /\ lastOp.op = "tick"
    /\ lastOp.did = "auth"
    /\ RefreshInBuffer(tokenData)
    /\ AccessInBuffer(tokenData)
    /\ state = LatestNonce
    /\ state # Null

\* C6: after a tick that finds the refresh token expired or within the
\* buffer, the in-memory record is absent, the token file is removed and a
\* nonce is pending.
C6_TickInRefreshBufferClearsCredentials ==
    [][(lastOp'.op = "tick" /\ RefreshInBuffer(tokenData))
       => (tokenData' = NoRecord /\ file' = NoRecord /\ state' # Null)]_vars

\* C7: a callback that fails validation (code missing, state missing or state
\* other than the pending nonce) is answered 500 and leaves the in-memory
\* record and the token file as they were.
C7_RejectedCallbackKeepsCredentials ==
    [][(/\ lastOp'.op = "callback"
        /\ \/ lastOp'.query.code = Absent
           \/ lastOp'.query.state = Absent
           \/ lastOp'.query.state # state)
       => (/\ lastOp'.status = 500
           /\ tokenData' = tokenData
           /\ file' = file)]_vars

\* C7 witness: a callback with a wrong state was rejected while a record existed
C7_Witness ==
    /\ lastOp.op = "callback"
    /\ lastOp.query = [code |-> "abc", state |-> "wrong"]
    /\ lastOp.status = 500
    /\ tokenData # NoRecord
    /\ ParseTokens(file) = tokenData

C9_ValidIffBeforeExpiry ==
    /\ IsTokenValid(tokenData)
         <=> (tokenData # NoRecord /\ now < tokenData.expires_at)
    /\ IsRefreshTokenValid(tokenData)
         <=> (tokenData # NoRecord /\ now < tokenData.refresh_token_expires_at)

\* C9 amended: in the one-shot-timer TokenManager the predicates compare now
\* with the expiry instant itself; in the polling TokenManager they compare
\* it with the expiry instant less 5 minutes.
C9_ValidIffBeforeBufferedExpiry ==
    /\ variant = "oneshot" =>
         /\ IsTokenValid(tokenData)
              <=> (tokenData # NoRecord /\ now < tokenData.expires_at)
         /\ IsRefreshTokenValid(tokenData)
              <=> (tokenData # NoRecord /\ now < tokenData.refresh_token_expires_at)
    /\ variant = "poll" =>
         /\ IsTokenValid(tokenData)
              <=> (tokenData # NoRecord /\ now + 5 * 60 < tokenData.expires_at)
         /\ IsRefreshTokenValid(tokenData)
              <=> (tokenData # NoRecord
                   /\ now + 5 * 60 < tokenData.refresh_token_expires_at)

\* C9 witness: the polling TokenManager at the first instant of the last 5
\* minutes of an access token, after initialize() consulted the predicates
C9_Witness ==
    /\ variant = "poll"
    /\ lastOp.op = "init"
    /\ tokenData # NoRecord
    /\ now + 5 * 60 = tokenData.expires_at
    /\ ~IsTokenValid(tokenData)
    /\ IsRefreshTokenValid(tokenData)

\* the bounds of the model keep the next tick from running: the clock has
\* no step left to reach the instant the timer is due, no nonce is left to
\* draw, or no further call may await the token endpoint
TickBlockedByBounds ==
    \/ /\ advances = MaxAdvance
       /\ refreshTimer # NoTimer
       /\ now < refreshTimer[1]
    \/ issued = MaxNonce /\ CheckDecision(tokenData) = "auth"
    \/ /\ InFlightCount + exchanging = MaxInFlight
       /\ CheckDecision(tokenData) = "refresh"
       /\ RefreshPosts(tokenData)

\* a refresh started by checkAndRefreshTokens has just failed and the record
\* still has its access token within the buffer
RefreshJustFailed ==
    /\ lastOp.op = "refreshFail"
    /\ lastOp.did = "check"
    /\ AccessInBuffer(tokenData)

\* a tick has just called refreshTokens() or startAuthFlow()
TickActed ==
    /\ lastOp.op = "tick"
    /\ lastOp.did \in {"refresh", "auth"}

\* C10: when a refresh started by checkAndRefreshTokens fails while the
\* refresh token is more than 5 minutes from expiry, the error is caught
\* there and the record and the token file are unchanged; a tick that finds
\* the access token within its buffer calls refreshTokens() or, the refresh
\* token having entered its buffer, startAuthFlow() and not refreshTokens();
\* and while the monitor's interval timer is armed and ticks fairly, a failed
\* refresh is followed by such a tick unless the record is replaced or
\* cleared first.
C10_FailedRefreshIsRetried ==
    /\ [][(/\ lastOp'.op = "refreshFail"
           /\ lastOp'.did = "check"
           /\ tokenData # NoRecord
           /\ ~RefreshInBuffer(tokenData))
          => (/\ lastOp'.err = "caught"
              /\ tokenData' = tokenData
              /\ file' = file)]_vars
    /\ [][(lastOp'.op = "tick" /\ AccessInBuffer(tokenData))
          => IF RefreshInBuffer(tokenData)
             THEN lastOp'.did = "auth" /\ inflight' = inflight
             ELSE lastOp'.did = "refresh"]_vars
    /\ RefreshJustFailed
         ~> (\/ TickActed
             \/ ~AccessInBuffer(tokenData)
             \/ refreshTimer = NoTimer
             \/ TickBlockedByBounds)

\* C10 witness: the tick right after a failed refresh has called
\* refreshTokens() again
C10_Witness ==
    /\ lastOp.op = "tick"
    /\ lastOp.retry
    /\ lastOp.did = "refresh"
    /\ lastOp.err = "none"
    /\ inflight["check"] > 0

\* a refresh started by the one-shot timer has just failed at the token
\* endpoint while isRefreshTokenValid() holds
TimerRefreshJustFailed ==
    /\ variant = "oneshot"
    /\ lastOp.op = "refreshFail"
    /\ lastOp.did = "timer"
    /\ IsRefreshTokenValid(tokenData)

\* the clock bound of the model keeps an armed timer from becoming due
TimerBlockedByBounds ==
    /\ advances = MaxAdvance
    /\ refreshTimer # NoTimer
    /\ now < refreshTimer[1]

\* C11: in the one-shot-timer build, a timer-started refresh that fails at the
\* token endpoint while the refresh token is valid is followed by another
\* timer-started refreshTokens() call, unless a token update or an operator
\* action (initialize, startAuthFlow, clearTokens, a callback) comes first.
C11_OneShotFailedRefreshIsRetried ==
    TimerRefreshJustFailed
      ~> (\/ lastOp.op = "timer"
          \/ lastOp.op \in {"refreshOk", "exchangeOk", "exchangeFail", "init",
                            "startAuthFlow", "clearTokens", "callback"}
          \/ TimerBlockedByBounds)

\* this step is refreshTokens() failing: the token endpoint refused or was
\* unreachable, or no refresh token was available
RefreshFailedStep ==
    \/ lastOp'.op = "refreshFail"
    \/ /\ lastOp'.op \in {"construct", "tick", "init", "timer"}
       /\ lastOp'.did = "refresh"
       /\ lastOp'.err # "none"

\* C12: when refreshTokens() fails and isRefreshTokenValid() is true, the
\* record, the token file and the pending nonce are unchanged and no nonce is
\* drawn; when it fails and isRefreshTokenValid() is false, startAuthFlow()
\* runs: a nonce not seen before becomes the pending one.  The record is
\* untouched in both cases.
C12_RefreshFailurePolicy ==
    [][RefreshFailedStep
       => /\ tokenData' = tokenData
          /\ file' = file
          /\ IF IsRefreshTokenValid(tokenData)
             THEN /\ tokenData # NoRecord
                  /\ state' = state
                  /\ issued' = issued
             ELSE /\ issued' = issued + 1
                  /\ state' = NonceNames[issued']
                  /\ state' # state]_vars

\* C12 witness: a refresh_token grant failed with the refresh token no longer
\* valid and startAuthFlow() made a new nonce pending
C12_Witness ==
    /\ lastOp.op = "refreshFail"
    /\ lastOp.auth
    /\ tokenData # NoRecord
    /\ ~IsRefreshTokenValid(tokenData)
    /\ state = LatestNonce
    /\ state # Null
    /\ ParseTokens(file) = tokenData

\* this step runs initialize(), or runs refreshTokens() up to its await or
\* from its await to its end
RefreshOrInitStep ==
    \/ lastOp'.op \in {"init", "refreshFail"}
    \/ /\ lastOp'.op \in {"construct", "tick", "timer"}
       /\ lastOp'.did = "refresh"

\* C13: when refreshTokens() or initialize() runs with the refresh token
\* absent or no longer valid, the call raises no error and startAuthFlow()
\* makes a new nonce pending.  (None of these steps changes the record once
\* it is loaded, so tokenData' is the record the call sees.)
C13_ExpiredRefreshTokenNotSurfaced ==
    [][(/\ RefreshOrInitStep
        /\ \/ GetRefreshToken(tokenData') = Null
           \/ ~IsRefreshTokenValid(tokenData'))
       => (/\ lastOp'.err = "none"
           /\ issued' = issued + 1
           /\ state' = NonceNames[issued'])]_vars

\* C14: when the code exchange of an accepted callback fails, the callback is
\* answered 500, the in-memory record, the token file and the timer are as
\* before (the failure authenticates nothing), and the nonce that was pending
\* is still pending, so a callback can be tried again.
C14_FailedExchangeKeepsState ==
    [][lastOp'.op = "exchangeFail"
       => (/\ lastOp'.status = 500
           /\ tokenData' = tokenData
           /\ file' = file
           /\ refreshTimer' = refreshTimer
           /\ state' = state
           /\ state' # Null)]_vars

\* C14 witness: an exchange failed with a record in place, and the record,
\* its file and the pending nonce are there afterwards
C14_Witness ==
    /\ lastOp.op = "exchangeFail"
    /\ lastOp.status = 500
    /\ exchanging = 0
    /\ state = LatestNonce
    /\ state # Null
    /\ tokenData # NoRecord
    /\ ParseTokens(file) = tokenData

\* record r carries all four credential fields (a field the model holds is
\* never null: Responses and PriorFiles carry values only)
CompleteRecord(r) ==
    \A k \in {"access_token", "refresh_token", "expires_at",
              "refresh_token_expires_at"} : Has(r, k)

\* C15: the token file is absent or holds a record with access_token,
\* refresh_token, expires_at and refresh_token_expires_at all present and
\* non-null.
C15_PersistedRecordNeverPartial ==
    file = NoRecord \/ CompleteRecord(ParseTokens(file))

\* an operation that ran updateTokens(response) to completion
UpdateStep == lastOp'.op \in {"refreshOk", "exchangeOk"}

SameExpiry(a, b) ==
    /\ a.expires_at = b.expires_at
    /\ a.refresh_token_expires_at = b.refresh_token_expires_at

\* C17: after updateTokens(t) at instant T the record and the file hold
\* expires_at = T + t.expires_in (T when t has no expires_in) and
\* refresh_token_expires_at = T + 30 days, whatever expiry values t carries;
\* no other operation changes either field: a record left by any other step
\* has the expiry fields of the record before it, or of the file it was
\* loaded from.
C17_ExpiryOnlyFromUpdateInstant ==
    [][IF UpdateStep
       THEN LET t == lastOp'.tokens
                computed ==
                    [expires_at |-> IF Has(t, "expires_in")
                                    THEN now + t.expires_in ELSE now,
                     refresh_token_expires_at |-> now + 30 * 24 * 60 * 60]
            IN /\ SameExpiry(tokenData', computed)
               /\ SameExpiry(ParseTokens(file'), computed)
       ELSE /\ (tokenData' # NoRecord /\ tokenData # NoRecord)
                  => SameExpiry(tokenData', tokenData)
            /\ (tokenData' # NoRecord /\ tokenData = NoRecord)
                  => (file # NoRecord /\ SameExpiry(tokenData', ParseTokens(file)))
            /\ file' # NoRecord => file' = file]_vars

\* a response carrying its own expiry values has been applied after the
\* clock moved, and the record holds the computed ones
C17_Witness ==
    /\ lastOp.op \in {"refreshOk", "exchangeOk"}
    /\ Has(lastOp.tokens, "expires_at")
    /\ now > 0
    /\ tokenData # NoRecord
    /\ tokenData.expires_at = now
    /\ tokenData.expires_at # lastOp.tokens.expires_at
    /\ tokenData.refresh_token_expires_at = now + REFRESH_TOKEN_LIFETIME

\* C18: polling TokenManager: whenever a record exists and isTokenValid() or
\* isRefreshTokenValid() is false, the periodic check decides to act, and a
\* tick taken in that state calls startAuthFlow() (a new nonce is pending) or
\* refreshTokens() (a request is posted, or the call throws).
C18_InvalidTokenMeansTickActs ==
    [][(/\ variant = "poll"
        /\ tokenData # NoRecord
        /\ ~IsTokenValid(tokenData) \/ ~IsRefreshTokenValid(tokenData))
       => /\ CheckDecision(tokenData) \in {"auth", "refresh"}
          /\ lastOp'.op = "tick"
               => \/ /\ lastOp'.did = "auth"
                     /\ issued' = issued + 1
                     /\ state' = NonceNames[issued']
                  \/ /\ lastOp'.did = "refresh"
                     /\ \/ inflight'["check"] = inflight["check"] + 1
                        \/ lastOp'.err # "none"]_vars

\* a tick refreshed at the very instant isTokenValid() turned false
C18_Witness ==
    /\ variant = "poll"
    /\ lastOp.op = "tick"
    /\ lastOp.did = "refresh"
    /\ inflight["check"] > 0
    /\ tokenData # NoRecord
    /\ tokenData.expires_at - now = REFRESH_BEFORE_EXPIRY
    /\ ~IsTokenValid(tokenData)
    /\ IsRefreshTokenValid(tokenData)

\* C19: polling TokenManager: once a code exchange has stored new tokens,
\* whatever came before it (clearTokens() included), the interval timer of
\* the refresh monitor is armed, so that the periodic check goes on running.
C19_MonitorSurvivesReset ==
    (variant = "poll" /\ lastOp.op = "exchangeOk") => refreshTimer # NoTimer

\* C20: when a tick has called startAuthFlow() because the refresh token is
\* within its buffer and the next tick comes with no callback (and no other
\* operation) in between, that tick does not call startAuthFlow() again: the
\* pending nonce is the one already shown to the operator.
C20_PendingNonceSurvivesTicks ==
    [][(/\ lastOp.op = "advance"
        /\ lastOp.afterTickAuth
        /\ lastOp'.op = "tick")
       => /\ lastOp'.did # "auth"
          /\ state' = state
          /\ issued' = issued]_vars
====
